---- MODULE Spec2Model ----
(***************************************************************************)
(* Model of "Exercise 4 - Finetuning/check_format.py": the format checker  *)
(* of the two submission files "peft config.txt" / "peft_config.txt" and   *)
(* "peft.txt".                                                             *)
(*                                                                         *)
(* Python objects are records tagged with their Python type name:          *)
(*   [type |-> "int",   val |-> n]                                         *)
(*   [type |-> "bool",  val |-> 0 or 1]      (bool is a subclass of int)   *)
(*   [type |-> "float", val |-> n]           (the float n / 10)            *)
(*   [type |-> "complex", re |-> m, val |-> n]   (the complex m/10 + n*1j) *)
(*   [type |-> "str",   s |-> <<tokens>>]    (concatenation of the tokens) *)
(*   [type |-> "NoneType"]                                                 *)
(*   [type |-> "list" or "tuple", elts |-> <<objects>>]                    *)
(*   [type |-> "set",   elts |-> {objects}]                                *)
(*   [type |-> "dict",  items |-> {<<key, value>>}]                        *)
(* A str is kept as the sequence of the pieces an f-string joins, so that  *)
(* two messages are equal iff their texts are.                             *)
(***************************************************************************)
EXTENDS Integers, Sequences, FiniteSets, TLC

VARIABLES fs, pc, path_cfg, vars_cfg, errs_cfg, vars_peft, errs_peft,
          any_errors, stdout, ret

vars == <<fs, pc, path_cfg, vars_cfg, errs_cfg, vars_peft, errs_peft,
          any_errors, stdout, ret>>

(***************************************************************************)
(* Python objects                                                          *)
(***************************************************************************)
Int_(n) == [type |-> "int", val |-> n]
Bool_(n) == [type |-> "bool", val |-> n]
Float_(n) == [type |-> "float", val |-> n]
Complex_(re, im) == [type |-> "complex", re |-> re, val |-> im]
Str_(toks) == [type |-> "str", s |-> toks]
None_ == [type |-> "NoneType"]
List_(elts) == [type |-> "list", elts |-> elts]
Tuple_(elts) == [type |-> "tuple", elts |-> elts]
Set_(elts) == [type |-> "set", elts |-> elts]
Dict_(items) == [type |-> "dict", items |-> items]

True_ == Bool_(1)
False_ == Bool_(0)
EmptyDict == <<>>

\* isinstance(x, int): bool is a subclass of int
IsInstanceInt(x) == x.type \in {"int", "bool"}
IsInstanceFloat(x) == x.type = "float"
IsInstanceList(x) == x.type = "list"

\* hash(x) succeeds: lists, sets and dicts are unhashable, a tuple is
\* hashable iff its elements are
RECURSIVE Hashable(_)
Hashable(x) ==
    IF x.type \in {"list", "set", "dict"} THEN FALSE
    ELSE IF x.type = "tuple" THEN \A i \in 1..Len(x.elts) : Hashable(x.elts[i])
    ELSE TRUE

\* str(n) of an int
StrInt(n) == ToString(n)

\* repr(x) as a sequence of text pieces
RECURSIVE Repr(_)
RECURSIVE ReprSeq(_)
ReprSeq(xs) ==
    IF Len(xs) = 0 THEN <<>>
    ELSE IF Len(xs) = 1 THEN Repr(xs[1])
    ELSE Repr(xs[1]) \o <<", ">> \o ReprSeq(Tail(xs))
Repr(x) ==
    IF x.type = "int" THEN <<StrInt(x.val)>>
    ELSE IF x.type = "bool" THEN <<IF x.val = 1 THEN "True" ELSE "False">>
    ELSE IF x.type = "float" THEN
        IF x.val < 0
        THEN <<"-", StrInt((0 - x.val) \div 10), ".", StrInt((0 - x.val) % 10)>>
        ELSE <<StrInt(x.val \div 10), ".", StrInt(x.val % 10)>>
    ELSE IF x.type = "complex" THEN
        IF x.re = 0 THEN <<StrInt(x.val), "j">>
        ELSE <<"(", StrInt(x.re \div 10), IF x.val < 0 THEN "" ELSE "+", StrInt(x.val), "j)">>
    ELSE IF x.type = "str" THEN <<"'">> \o x.s \o <<"'">>
    ELSE IF x.type = "NoneType" THEN <<"None">>
    ELSE IF x.type = "list" THEN <<"[">> \o ReprSeq(x.elts) \o <<"]">>
    ELSE IF x.type = "tuple" THEN
        <<"(">> \o ReprSeq(x.elts) \o (IF Len(x.elts) = 1 THEN <<",)">> ELSE <<")">>)
    ELSE IF x.type = "set" THEN <<"{", "...", "}">>
    ELSE <<"{", ":", "}">>

(***************************************************************************)
(* ast nodes (what ast.parse builds)                                       *)
(***************************************************************************)
Constant(v) == [node |-> "Constant", value |-> v]
ListNode(elts) == [node |-> "List", elts |-> elts]
TupleNode(elts) == [node |-> "Tuple", elts |-> elts]
SetNode(elts) == [node |-> "Set", elts |-> elts]
DictNode(keys, values) == [node |-> "Dict", keys |-> keys, values |-> values]
Name(id) == [node |-> "Name", id |-> id]
Attribute(id, attr) == [node |-> "Attribute", id |-> id, attr |-> attr]
Subscript(id) == [node |-> "Subscript", id |-> id]
Call(func, args) == [node |-> "Call", func |-> func, args |-> args]
BinOp(left, op, right) == [node |-> "BinOp", left |-> left, op |-> op, right |-> right]
UnaryOp(op, operand) == [node |-> "UnaryOp", op |-> op, operand |-> operand]

Assign(targets, value) == [stmt |-> "Assign", targets |-> targets, value |-> value]
Import(module) == [stmt |-> "Import", module |-> module]
Expr(value) == [stmt |-> "Expr", value |-> value]
If(test) == [stmt |-> "If", test |-> test]

(***************************************************************************)
(* ast.literal_eval(node): [ok |-> TRUE, val |-> object] or, when it       *)
(* raises, [ok |-> FALSE]                                                  *)
(***************************************************************************)
Raise == [ok |-> FALSE]
Return(v) == [ok |-> TRUE, val |-> v]

\* _convert_num: a Constant of type int, float or complex
convert_num(node) ==
    IF node.node = "Constant" /\ node.value.type \in {"int", "float", "complex"}
    THEN Return(node.value)
    ELSE Raise

\* _convert_signed_num: + or - in front of a number
convert_signed_num(node) ==
    IF node.node = "UnaryOp" /\ node.op \in {"UAdd", "USub"}
    THEN LET operand == convert_num(node.operand) IN
         IF ~operand.ok THEN Raise
         ELSE IF node.op = "UAdd" THEN Return(operand.val)
         ELSE Return([operand.val EXCEPT !.val = 0 - @])
    ELSE convert_num(node)

RECURSIVE literal_eval(_)
literal_eval(node) ==
    IF node.node = "Constant" THEN Return(node.value)
    ELSE IF node.node \in {"Tuple", "List", "Set"} THEN
        LET rs == [i \in 1..Len(node.elts) |-> literal_eval(node.elts[i])] IN
        IF \E i \in 1..Len(node.elts) : ~rs[i].ok THEN Raise
        ELSE LET elts == [i \in 1..Len(node.elts) |-> rs[i].val] IN
             IF node.node = "Tuple" THEN Return(Tuple_(elts))
             ELSE IF node.node = "List" THEN Return(List_(elts))
             ELSE IF \E i \in 1..Len(elts) : ~Hashable(elts[i]) THEN Raise
             ELSE Return(Set_({elts[i] : i \in 1..Len(elts)}))
    ELSE IF node.node = "Call" /\ node.func = Name("set") /\ node.args = <<>>
        THEN Return(Set_({}))
    ELSE IF node.node = "Dict" THEN
        IF Len(node.keys) # Len(node.values) THEN Raise
        ELSE LET ks == [i \in 1..Len(node.keys) |-> literal_eval(node.keys[i])]
                 vs == [i \in 1..Len(node.keys) |-> literal_eval(node.values[i])]
                 n  == Len(node.keys) IN
             IF \E i \in 1..n : ~ks[i].ok \/ ~vs[i].ok THEN Raise
             ELSE IF \E i \in 1..n : ~Hashable(ks[i].val) THEN Raise
             ELSE Return(Dict_({<<ks[i].val, vs[i].val>> : i \in
                     {j \in 1..n : \A k \in (j+1)..n : ks[k].val # ks[j].val}}))
    ELSE IF node.node = "BinOp" /\ node.op \in {"Add", "Sub"} THEN
        LET left == convert_signed_num(node.left)
            right == convert_num(node.right) IN
        IF ~left.ok \/ ~right.ok THEN Raise
        ELSE IF left.val.type \in {"int", "float"} /\ right.val.type = "complex"
             THEN LET re == IF left.val.type = "int" THEN 10 * left.val.val
                                                               ELSE left.val.val IN
                  IF node.op = "Add"
                  THEN Return(Complex_(re + right.val.re, right.val.val))
                  ELSE Return(Complex_(re - right.val.re, 0 - right.val.val))
             ELSE Raise
    ELSE convert_signed_num(node)

(***************************************************************************)
(* Utils                                                                   *)
(***************************************************************************)
RECURSIVE Flatten(_)
Flatten(ss) == IF Len(ss) = 0 THEN <<>> ELSE Head(ss) \o Flatten(Tail(ss))

is_numeric(x) == IsInstanceInt(x) \/ IsInstanceFloat(x)

\* (ok, msg)
check_vector(vec, length) ==
    IF ~IsInstanceList(vec) \/ Len(vec.elts) # length
    THEN [ok |-> FALSE, msg |-> <<"Expected a list of length ", StrInt(length), ".">>]
    ELSE IF \E i \in 1..Len(vec.elts) : ~is_numeric(vec.elts[i])
    THEN LET i == CHOOSE i \in 1..Len(vec.elts) :
                      /\ ~is_numeric(vec.elts[i])
                      /\ \A j \in 1..(i-1) : is_numeric(vec.elts[j]) IN
         [ok |-> FALSE,
          msg |-> <<"Element at position ", StrInt(i - 1), " is not numeric: ">>
                  \o Repr(vec.elts[i])]
    ELSE [ok |-> TRUE, msg |-> <<>>]

\* what the loop body of check_matrix does with row r_idx (1-based here)
check_row(row, r_idx, cols) ==
    IF ~IsInstanceList(row) \/ Len(row.elts) # cols
    THEN [ok |-> FALSE,
          msg |-> <<"Row ", StrInt(r_idx - 1), " must be a list with ", StrInt(cols),
                    " elements.">>]
    ELSE IF \E c \in 1..Len(row.elts) : ~is_numeric(row.elts[c])
    THEN LET c == CHOOSE c \in 1..Len(row.elts) :
                      /\ ~is_numeric(row.elts[c])
                      /\ \A j \in 1..(c-1) : is_numeric(row.elts[j]) IN
         [ok |-> FALSE,
          msg |-> <<"Non-numeric at (", StrInt(r_idx - 1), ",", StrInt(c - 1), "): ">>
                  \o Repr(row.elts[c])]
    ELSE [ok |-> TRUE, msg |-> <<>>]

check_matrix(mat, rows, cols) ==
    IF ~IsInstanceList(mat) \/ Len(mat.elts) # rows
    THEN [ok |-> FALSE, msg |-> <<"Expected a list with ", StrInt(rows), " rows.">>]
    ELSE IF \E r \in 1..Len(mat.elts) : ~check_row(mat.elts[r], r, cols).ok
    THEN LET r == CHOOSE r \in 1..Len(mat.elts) :
                      /\ ~check_row(mat.elts[r], r, cols).ok
                      /\ \A j \in 1..(r-1) : check_row(mat.elts[j], j, cols).ok IN
         check_row(mat.elts[r], r, cols)
    ELSE [ok |-> TRUE, msg |-> <<>>]

(***************************************************************************)
(* Files.  A file of the folder is                                         *)
(*   [kind |-> "absent"]                       no such path                *)
(*   [kind |-> "unreadable"]                   open() or read() raises     *)
(*   [kind |-> "text", syntax_ok, body]        body is ast.parse(src).body *)
(***************************************************************************)
Absent == [kind |-> "absent"]
Unreadable == [kind |-> "unreadable"]
Unparsable == [kind |-> "text", syntax_ok |-> FALSE, body |-> <<>>]
Text(body) == [kind |-> "text", syntax_ok |-> TRUE, body |-> body]

exists(f) == f.kind # "absent"

\* slip: an entry already in the map is kept
SetItem_keepfirst(out, name, val) ==
    [n \in (DOMAIN out) \cup {name} |-> IF n \in DOMAIN out THEN out[n] ELSE val]

\* out[name] = val
SetItem(out, name, val) ==
    [n \in (DOMAIN out) \cup {name} |-> IF n = name THEN val ELSE out[n]]

\* the statements the loop of read_assignments_multiline evaluates
IsNameAssign(node) ==
    /\ node.stmt = "Assign"
    /\ Len(node.targets) = 1
    /\ node.targets[1].node = "Name"

\* slip: a right-hand side that cannot be evaluated is skipped
RECURSIVE collect_skip(_, _, _)
collect_skip(body, i, out) ==
    IF i > Len(body) THEN [out |-> out, err |-> None_]
    ELSE IF IsNameAssign(body[i])
    THEN LET name == body[i].targets[1].id
             val == literal_eval(body[i].value) IN
         IF ~val.ok
         THEN collect_skip(body, i + 1, out)
         ELSE collect_skip(body, i + 1, SetItem(out, name, val.val))
    ELSE collect_skip(body, i + 1, out)

\* slip: only numbers and lists are taken as values
RECURSIVE collect_numbers(_, _, _)
collect_numbers(body, i, out) ==
    IF i > Len(body) THEN [out |-> out, err |-> None_]
    ELSE IF IsNameAssign(body[i])
    THEN LET name == body[i].targets[1].id
             val == literal_eval(body[i].value) IN
         IF ~val.ok \/ val.val.type \notin {"int", "float", "list"}
         THEN [out |-> EmptyDict,
               err |-> Str_(<<"Could not parse value for ", name, ": ", "<e>">>)]
         ELSE collect_numbers(body, i + 1, SetItem(out, name, val.val))
    ELSE collect_numbers(body, i + 1, out)

\* the for loop over tree.body from statement i on, with the map built so far
RECURSIVE collect(_, _, _)
collect(body, i, out) ==
    IF i > Len(body) THEN [out |-> out, err |-> None_]
    ELSE IF IsNameAssign(body[i])
    THEN LET name == body[i].targets[1].id
             val == literal_eval(body[i].value) IN
         IF ~val.ok
         THEN [out |-> EmptyDict,
               err |-> Str_(<<"Could not parse value for ", name, ": ", "<e>">>)]
         ELSE collect(body, i + 1, SetItem(out, name, val.val))
    ELSE collect(body, i + 1, out)

\* (vars_dict, error_or_None) for the file f at path
read_assignments_multiline(path, f) ==
    IF f.kind = "absent"
    THEN [out |-> EmptyDict, err |-> Str_(<<"File not found: ", path>>)]
    ELSE IF f.kind = "unreadable"
    THEN [out |-> EmptyDict, err |-> Str_(<<"Error opening ", path, ": ", "<e>">>)]
    ELSE IF ~f.syntax_ok
    THEN [out |-> EmptyDict, err |-> Str_(<<"Could not parse file as Python: ", "<e>">>)]
    ELSE collect(f.body, 1, EmptyDict)

\* truth value of an error_or_None
Truthy(x) == x.type = "str" /\ x.s # <<>>

(***************************************************************************)
(* File checks                                                             *)
(***************************************************************************)
required_config == <<"r", "num_trainable_lora", "P", "num_trainable_soft", "d_a",
                     "num_trainable_adapters", "num_trainable_ia3">>
assert_order == <<"r", "P", "d_a", "num_trainable_lora", "num_trainable_soft",
                  "num_trainable_adapters", "num_trainable_ia3">>
even_names == <<"r", "P", "d_a">>
required_peft == <<"b", "A", "B", "Wprime">>

\* the "Missing variable" loop over a required list
missing_errors(required, vars_out) ==
    Flatten([i \in 1..Len(required) |->
                IF required[i] \notin DOMAIN vars_out
                THEN << <<"Missing variable: ", required[i]>> >>
                ELSE <<>>])

\* slip: <= instead of <
assert_int_positive(vars_out, name) ==
    LET v == vars_out[name] IN
    IF ~IsInstanceInt(v)
    THEN << <<name, " must be an integer (got ", v.type, ").">> >>
    ELSE IF v.val <= 0
    THEN << <<name, " must be >= 0 (got ">> \o Repr(v) \o <<").">> >>
    ELSE <<>>

\* what one call of _assert_int_nonneg appends to errors
assert_int_nonneg(vars_out, name) ==
    LET v == vars_out[name] IN
    IF ~IsInstanceInt(v)
    THEN << <<name, " must be an integer (got ", v.type, ").">> >>
    ELSE IF v.val < 0
    THEN << <<name, " must be >= 0 (got ">> \o Repr(v) \o <<").">> >>
    ELSE <<>>

\* slip: parity is looked at for non-negative values only
even_errors_nonneg(vars_out, name) ==
    IF name \in DOMAIN vars_out /\ IsInstanceInt(vars_out[name])
       /\ vars_out[name].val >= 0 /\ vars_out[name].val % 2 # 0
    THEN << <<name, " must be even (got ">> \o Repr(vars_out[name]) \o <<").">> >>
    ELSE <<>>

\* what the evenness loop appends for one name
even_errors(vars_out, name) ==
    IF name \in DOMAIN vars_out /\ IsInstanceInt(vars_out[name])
       /\ vars_out[name].val % 2 # 0
    THEN << <<name, " must be even (got ">> \o Repr(vars_out[name]) \o <<").">> >>
    ELSE <<>>

\* slip: no return after the missing-variable loop
validate_config_all(vars_out) ==
    LET present == SelectSeq(assert_order, LAMBDA n : n \in DOMAIN vars_out) IN
    missing_errors(required_config, vars_out)
    \o Flatten([i \in 1..Len(present) |-> assert_int_nonneg(vars_out, present[i])])
    \o Flatten([i \in 1..Len(even_names) |-> even_errors(vars_out, even_names[i])])

\* the schema part of check_peft_config, on the parsed map
validate_config(vars_out) ==
    LET missing == missing_errors(required_config, vars_out) IN
    IF missing # <<>> THEN missing
    ELSE Flatten([i \in 1..Len(assert_order) |->
                     assert_int_nonneg(vars_out, assert_order[i])])
         \o Flatten([i \in 1..Len(even_names) |-> even_errors(vars_out, even_names[i])])

\* [vars_out, errors]: the local map and the returned list
check_peft_config(path, f) ==
    LET parsed == read_assignments_multiline(path, f) IN
    IF Truthy(parsed.err)
    THEN [vars_out |-> parsed.out, errors |-> <<parsed.err.s>>]
    ELSE [vars_out |-> parsed.out, errors |-> validate_config(parsed.out)]

\* what one shape check appends to errors
shape_error(res, prefix) == IF ~res.ok THEN <<prefix \o res.msg>> ELSE <<>>

\* slip: the checks stop at the first one that fails
validate_peft_first(vars_out) ==
    LET missing == missing_errors(required_peft, vars_out)
        eb == shape_error(check_vector(vars_out["b"], 4),
                          <<"b must be a numeric list of length 4: ">>)
        eA == shape_error(check_matrix(vars_out["A"], 2, 1),
                          <<"A must be a 2x1 numeric matrix: ">>)
        eB == shape_error(check_matrix(vars_out["B"], 1, 4),
                          <<"B must be a 1x4 numeric matrix: ">>)
        eW == shape_error(check_matrix(vars_out["Wprime"], 2, 4),
                          <<"Wprime must be a 2x4 numeric matrix: ">>) IN
    IF missing # <<>> THEN missing
    ELSE IF eb # <<>> THEN eb
    ELSE IF eA # <<>> THEN eA
    ELSE IF eB # <<>> THEN eB
    ELSE eW

\* the schema part of check_peft, on the parsed map
validate_peft(vars_out) ==
    LET missing == missing_errors(required_peft, vars_out) IN
    IF missing # <<>> THEN missing
    ELSE shape_error(check_vector(vars_out["b"], 4),
                     <<"b must be a numeric list of length 4: ">>)
         \o shape_error(check_matrix(vars_out["A"], 2, 1),
                        <<"A must be a 2x1 numeric matrix: ">>)
         \o shape_error(check_matrix(vars_out["B"], 1, 4),
                        <<"B must be a 1x4 numeric matrix: ">>)
         \o shape_error(check_matrix(vars_out["Wprime"], 2, 4),
                        <<"Wprime must be a 2x4 numeric matrix: ">>)

check_peft(path, f) ==
    LET parsed == read_assignments_multiline(path, f) IN
    IF Truthy(parsed.err)
    THEN [vars_out |-> parsed.out, errors |-> <<parsed.err.s>>]
    ELSE [vars_out |-> parsed.out, errors |-> validate_peft(parsed.out)]

(***************************************************************************)
(* Submission folders.  The source texts are given by their syntax trees.  *)
(***************************************************************************)
candidates_cfg == <<"peft config.txt", "peft_config.txt">>
peft_name == "peft.txt"
FileNames == {"peft config.txt", "peft_config.txt", "peft.txt"}

MaxDeviations == 2
MaxStmts == 3

\* a number literal as ast.parse builds it: the sign is a UnaryOp
Num(n) == IF n < 0 THEN UnaryOp("USub", Constant(Int_(0 - n))) ELSE Constant(Int_(n))
Flt(n) == IF n < 0 THEN UnaryOp("USub", Constant(Float_(0 - n))) ELSE Constant(Float_(n))
StrLit(t) == Constant(Str_(<<t>>))
NumList(ns) == ListNode([i \in 1..Len(ns) |-> Num(ns[i])])
AssignName(name, value) == Assign(<<Name(name)>>, value)

\* the example files of the exercise sheet
GoodConfigValue ==
    [r |-> 4, num_trainable_lora |-> 8, P |-> 2, num_trainable_soft |-> 16, d_a |-> 6,
     num_trainable_adapters |-> 12, num_trainable_ia3 |-> 0]
GoodConfigBody ==
    [i \in 1..Len(required_config) |->
        AssignName(required_config[i], Num(GoodConfigValue[required_config[i]]))]
Good_b == ListNode(<<Flt(10), Num(2), Flt(35), Num(-4)>>)
Good_A == ListNode(<<ListNode(<<Flt(1)>>), ListNode(<<Flt(2)>>)>>)
Good_B == ListNode(<<NumList(<<1, 2, 3, 4>>)>>)
Good_Wprime == ListNode(<<NumList(<<1, 2, 3, 4>>), NumList(<<5, 6, 7, 8>>)>>)
GoodPeftBody ==
    <<AssignName("b", Good_b), AssignName("A", Good_A), AssignName("B", Good_B),
      AssignName("Wprime", Good_Wprime)>>

\* a body that assigns, in the order of names, the chosen right-hand sides;
\* a name outside DOMAIN choice is left out
BodyOf(names, choice) ==
    Flatten([i \in 1..Len(names) |->
                IF names[i] \in DOMAIN choice
                THEN <<AssignName(names[i], choice[names[i]])>>
                ELSE <<>>])

Range(f) == {f[x] : x \in DOMAIN f}
Override(f, g) == [x \in DOMAIN f |-> IF x \in DOMAIN g THEN g[x] ELSE f[x]]
Without(f, D) == [x \in (DOMAIN f) \ D |-> f[x]]

\* right-hand sides tried for a config variable
ConfigValues ==
    {Num(-3), Num(-2), Num(0), Num(3), Flt(20), Constant(True_), StrLit("4")}

\* right-hand sides tried for the data variables
PeftValues ==
    [b |-> {Good_b, NumList(<<1, 2, 3>>),
            ListNode(<<Num(1), StrLit("x"), Num(3), Num(4)>>),
            ListNode(<<Num(1), Num(2), Constant(True_), Num(4)>>),
            Num(5), TupleNode(<<Num(1), Num(2), Num(3), Num(4)>>)},
     A |-> {Good_A, ListNode(<<NumList(<<1, 2>>), NumList(<<3, 4>>)>>),
            NumList(<<1, 2>>), ListNode(<<ListNode(<<Constant(False_)>>), NumList(<<1>>)>>),
            ListNode(<<NumList(<<1>>)>>)},
     B |-> {Good_B, ListNode(<<NumList(<<1, 2, 3>>)>>),
            ListNode(<<ListNode(<<Num(1), Num(2), StrLit("x"), Num(4)>>)>>),
            NumList(<<1, 2, 3, 4>>)},
     Wprime |-> {Good_Wprime,
                 ListNode(<<ListNode(<<Num(1), Num(2), Num(3), Constant(True_)>>),
                            NumList(<<5, 6, 7, 8>>)>>),
                 ListNode(<<NumList(<<1, 2, 3, 4>>), NumList(<<5, 6, 7>>)>>),
                 ListNode(<<NumList(<<1, 2, 3, 4>>)>>),
                 ListNode(<<NumList(<<1, 2, 3, 4>>),
                            ListNode(<<Num(5), Constant(None_), Num(7), Num(8)>>)>>)}]

\* right-hand sides of every kind
RhsKinds ==
    {Num(4), Num(-4), Flt(25), NumList(<<1, 2>>), ListNode(<<Num(1), NumList(<<2>>)>>),
     StrLit("s"), Constant(True_), Constant(None_), Constant(Complex_(0, 2)),
     TupleNode(<<Num(1), Num(2)>>), SetNode(<<Num(1), Num(2)>>),
     DictNode(<<Num(1)>>, <<Num(2)>>), DictNode(<<StrLit("k"), StrLit("k")>>, <<Num(1), Num(2)>>),
     Call(Name("set"), <<>>), BinOp(Num(1), "Add", Constant(Complex_(0, 2))),
     BinOp(Num(1), "Add", Num(1)), BinOp(Num(2), "Mult", Num(3)), Name("x"),
     Call(Name("f"), <<Num(1)>>), Call(Name("set"), <<NumList(<<1>>)>>),
     UnaryOp("USub", Name("x")), UnaryOp("Not", Constant(True_)),
     ListNode(<<Num(1), ListNode(<<Name("x")>>)>>), SetNode(<<NumList(<<1>>)>>),
     DictNode(<<NumList(<<1>>)>>, <<Num(2)>>), TupleNode(<<Num(1), Call(Name("f"), <<>>)>>)}

\* top-level statements of every kind
Statements ==
    {AssignName("r", Num(4)), AssignName("r", Num(6)), AssignName("b", NumList(<<1, 2>>)),
     AssignName("r", BinOp(Num(1), "Add", Num(1))),
     Import("os"), Expr(Call(Name("print"), <<Num(1)>>)), If(Constant(True_)),
     Assign(<<Name("r"), Name("b")>>, Num(1)),
     Assign(<<Attribute("obj", "r")>>, Num(1)), Assign(<<Subscript("r")>>, Num(1))}

RECURSIVE SeqsUpTo(_, _)
SeqsUpTo(S, n) ==
    IF n = 0 THEN {<<>>}
    ELSE LET shorter == SeqsUpTo(S, n - 1) IN
         shorter \cup {Append(q, x) : q \in shorter, x \in S}

\* files tried for the exit status
FileStates ==
    {Absent, Unreadable, Unparsable}
    \cup {Text(<<AssignName("r", Name("x"))>>)}

\* the folder with the given config file (under the name cfg_name) and data file
Folder(cfg_name, cfg, peft) ==
    [n \in FileNames |-> IF n = cfg_name THEN cfg
                         ELSE IF n = peft_name THEN peft ELSE Absent]

\* config files that deviate from the example in at most MaxDeviations variables
InitConfigs ==
    \E D \in SUBSET Range(required_config) :
        /\ Cardinality(D) <= MaxDeviations
        /\ \E gone \in SUBSET D : \E ch \in [D \ gone -> ConfigValues] :
               fs = Folder("peft config.txt",
                           Text(BodyOf(required_config,
                                       Override(Without([n \in Range(required_config) |->
                                                            Num(GoodConfigValue[n])], gone),
                                                ch))),
                           Text(GoodPeftBody))

\* data files: each variable left out or given one of its values
InitPefts ==
    \E D \in SUBSET Range(required_peft) : \E ch \in [D -> UNION Range(PeftValues)] :
        /\ \A n \in D : ch[n] \in PeftValues[n]
        /\ fs = Folder("peft_config.txt", Text(GoodConfigBody),
                       Text(BodyOf(required_peft, ch)))

\* one right-hand side of any kind, alone or around a valid assignment
InitRhs ==
    \E rhs \in RhsKinds : \E name \in {"r", "b"} :
    \E pre \in {<<>>, <<AssignName("r", Num(4))>>} :
    \E post \in {<<>>, <<AssignName("r", Num(4))>>} :
    \E target \in FileNames :
        LET body == pre \o <<AssignName(name, rhs)>> \o post IN
        fs = IF target = peft_name
             THEN Folder("peft_config.txt", Text(GoodConfigBody), Text(body))
             ELSE Folder(target, Text(body), Text(GoodPeftBody))

\* up to MaxStmts statements of any kind, as the config file; shorter ones
\* also as the data file
InitStatements ==
    \E body \in SeqsUpTo(Statements, MaxStmts) :
        \/ fs = Folder("peft_config.txt", Text(body), Text(GoodPeftBody))
        \/ /\ Len(body) < MaxStmts
           /\ fs = Folder("peft_config.txt", Text(GoodConfigBody), Text(body))

\* every combination of missing, unreadable, broken, invalid and valid files
InitFolders ==
    \E c1 \in FileStates \cup {Text(GoodConfigBody), Text(Tail(GoodConfigBody))} :
    \E c2 \in FileStates \cup {Text(GoodConfigBody),
                                Text(<<AssignName("r", Num(3))>> \o Tail(GoodConfigBody))} :
    \E p \in FileStates \cup {Text(GoodPeftBody), Text(Tail(GoodPeftBody)),
                               Text(<<AssignName("b", Num(5))>> \o Tail(GoodPeftBody))} :
        fs = [n \in FileNames |-> IF n = "peft config.txt" THEN c1
                                  ELSE IF n = "peft_config.txt" THEN c2 ELSE p]

Init ==
    /\ InitConfigs \/ InitPefts \/ InitRhs \/ InitStatements \/ InitFolders
    /\ pc = "find_cfg"
    /\ path_cfg = None_
    /\ vars_cfg = EmptyDict
    /\ errs_cfg = <<>>
    /\ vars_peft = EmptyDict
    /\ errs_peft = <<>>
    /\ any_errors = FALSE
    /\ stdout = <<>>
    /\ ret = None_

(***************************************************************************)
(* main(folder).  fs maps the three file names of the folder to files.     *)
(***************************************************************************)

\* the lines printed for a failed file
error_lines(errs) == [i \in 1..Len(errs) |-> <<"   - ">> \o errs[i]]

\* lines 192-198: the first existing candidate
FindConfig ==
    /\ pc = "find_cfg"
    /\ path_cfg' = IF \E i \in 1..Len(candidates_cfg) : exists(fs[candidates_cfg[i]])
                   THEN LET i == CHOOSE i \in 1..Len(candidates_cfg) :
                                   /\ exists(fs[candidates_cfg[i]])
                                   /\ \A j \in 1..(i-1) : ~exists(fs[candidates_cfg[j]])
                        IN Str_(<<candidates_cfg[i]>>)
                   ELSE None_
    /\ any_errors' = FALSE
    /\ pc' = "check_cfg"
    /\ UNCHANGED <<fs, vars_cfg, errs_cfg, vars_peft, errs_peft, stdout, ret>>

\* lines 202-213
CheckConfig ==
    /\ pc = "check_cfg"
    /\ IF path_cfg = None_
       THEN /\ stdout' = Append(stdout, <<"X ", "peft config.txt / peft_config.txt: File not found">>)
            /\ any_errors' = TRUE
            /\ UNCHANGED <<vars_cfg, errs_cfg>>
       ELSE LET res == check_peft_config(path_cfg.s[1], fs[path_cfg.s[1]]) IN
            /\ vars_cfg' = res.vars_out
            /\ errs_cfg' = res.errors
            /\ IF res.errors = <<>>
               THEN /\ stdout' = Append(stdout, <<"OK ", path_cfg.s[1], ": OK">>)
                    /\ UNCHANGED any_errors
               ELSE /\ any_errors' = TRUE
                    /\ stdout' = Append(stdout, <<"X ", path_cfg.s[1], ":">>)
                                  \o error_lines(res.errors)
    /\ pc' = "check_peft"
    /\ UNCHANGED <<fs, path_cfg, vars_peft, errs_peft, ret>>

\* slip: the outcome of the data file replaces that of the config file
CheckPeft_overwrite ==
    /\ pc = "check_peft"
    /\ IF ~exists(fs[peft_name])
       THEN /\ stdout' = Append(stdout, <<"X ", "peft.txt: File not found">>)
            /\ any_errors' = TRUE
            /\ UNCHANGED <<vars_peft, errs_peft>>
       ELSE LET res == check_peft(peft_name, fs[peft_name]) IN
            /\ vars_peft' = res.vars_out
            /\ errs_peft' = res.errors
            /\ any_errors' = (res.errors # <<>>)
            /\ IF res.errors = <<>>
               THEN stdout' = Append(stdout, <<"OK ", "peft.txt: OK">>)
               ELSE stdout' = Append(stdout, <<"X ", "peft.txt:">>)
                              \o error_lines(res.errors)
    /\ pc' = "return"
    /\ UNCHANGED <<fs, path_cfg, vars_cfg, errs_cfg, ret>>

\* lines 216-228
CheckPeft ==
    /\ pc = "check_peft"
    /\ IF ~exists(fs[peft_name])
       THEN /\ stdout' = Append(stdout, <<"X ", "peft.txt: File not found">>)
            /\ any_errors' = TRUE
            /\ UNCHANGED <<vars_peft, errs_peft>>
       ELSE LET res == check_peft(peft_name, fs[peft_name]) IN
            /\ vars_peft' = res.vars_out
            /\ errs_peft' = res.errors
            /\ IF res.errors = <<>>
               THEN /\ stdout' = Append(stdout, <<"OK ", "peft.txt: OK">>)
                    /\ UNCHANGED any_errors
               ELSE /\ any_errors' = TRUE
                    /\ stdout' = Append(stdout, <<"X ", "peft.txt:">>)
                                  \o error_lines(res.errors)
    /\ pc' = "return"
    /\ UNCHANGED <<fs, path_cfg, vars_cfg, errs_cfg, ret>>

\* lines 230-235
MainReturn ==
    /\ pc = "return"
    /\ IF ~any_errors
       THEN /\ stdout' = Append(stdout, <<"All files are correctly formatted">>)
            /\ ret' = Int_(0)
       ELSE /\ stdout' = Append(stdout, <<"Formatting issues detected">>)
            /\ ret' = Int_(1)
    /\ pc' = "done"
    /\ UNCHANGED <<fs, path_cfg, vars_cfg, errs_cfg, vars_peft, errs_peft, any_errors>>

Next == FindConfig \/ CheckConfig \/ CheckPeft \/ MainReturn

Spec == Init /\ [][Next]_vars

(***************************************************************************)
(* Vocabulary of the properties                                            *)
(***************************************************************************)
ConfigNames == Range(required_config)
PeftNames == Range(required_peft)

\* check_peft_config / check_peft has returned in this run of main
CfgChecked == pc \in {"check_peft", "return", "done"} /\ path_cfg # None_
PeftChecked == pc \in {"return", "done"} /\ exists(fs[peft_name])
CfgFile == fs[path_cfg.s[1]]
PeftFile == fs[peft_name]

Parsed(f) == f.kind = "text" /\ f.syntax_ok
NameAssigns(body) == {i \in 1..Len(body) : IsNameAssign(body[i])}
\* the name assignments whose right-hand side literal_eval refuses
Refused(body) == {i \in NameAssigns(body) : ~literal_eval(body[i].value).ok}
Min(S) == CHOOSE x \in S : \A y \in S : x <= y
Max(S) == CHOOSE x \in S : \A y \in S : x >= y
Occurrences(errs, e) == Cardinality({i \in 1..Len(errs) : errs[i] = e})
IsOdd(v) == \E k \in -50..50 : v = 2 * k + 1

HasBoolean(x) ==
    /\ x.type = "list"
    /\ \E i \in 1..Len(x.elts) :
          \/ x.elts[i].type = "bool"
          \/ /\ x.elts[i].type = "list"
             /\ \E j \in 1..Len(x.elts[i].elts) : x.elts[i].elts[j].type = "bool"

PeftPrefix ==
    [b |-> "b must be a numeric list of length 4: ",
     A |-> "A must be a 2x1 numeric matrix: ",
     B |-> "B must be a 1x4 numeric matrix: ",
     Wprime |-> "Wprime must be a 2x4 numeric matrix: "]

\* C1: a vector or matrix of the data file that contains a boolean element
\* gets a shape error: booleans are never numeric.
C1_BooleanNeverNumeric ==
    (PeftChecked /\ PeftNames \subseteq DOMAIN vars_peft) =>
        \A n \in PeftNames :
            HasBoolean(vars_peft[n]) =>
                \E i \in 1..Len(errs_peft) : errs_peft[i][1] = PeftPrefix[n]

ValidConfig(m) ==
    /\ ConfigNames \subseteq DOMAIN m
    /\ \A n \in ConfigNames : m[n].type = "int" /\ m[n].val >= 0
    /\ \A n \in {"r", "P", "d_a"} : ~IsOdd(m[n].val)

\* C2: a config map with all 7 variables, each a non-negative integer and
\* r, P, d_a even, gets an empty error list from check_peft_config.
C2_ValidConfigPasses ==
    (CfgChecked /\ ValidConfig(vars_cfg)) => errs_cfg = <<>>

C2_Witness ==
    /\ pc = "done" /\ path_cfg # None_ /\ ValidConfig(vars_cfg) /\ errs_cfg = <<>>
    /\ vars_cfg["r"] = Int_(0) /\ vars_cfg["num_trainable_lora"] = Int_(3)

PeftCheckOf(m, n) ==
    IF n = "b" THEN check_vector(m[n], 4)
    ELSE IF n = "A" THEN check_matrix(m[n], 2, 1)
    ELSE IF n = "B" THEN check_matrix(m[n], 1, 4)
    ELSE check_matrix(m[n], 2, 4)

IsNumber(x) == x.type \in {"int", "float"}
IsShaped(x, rows, cols) ==
    /\ x.type = "list" /\ Len(x.elts) = rows
    /\ \A r \in 1..rows :
          /\ x.elts[r].type = "list" /\ Len(x.elts[r].elts) = cols
          /\ \A c \in 1..cols : IsNumber(x.elts[r].elts[c])
WellShapedPeft(m) ==
    /\ m["b"].type = "list" /\ Len(m["b"].elts) = 4
    /\ \A i \in 1..4 : IsNumber(m["b"].elts[i])
    /\ IsShaped(m["A"], 2, 1) /\ IsShaped(m["B"], 1, 4) /\ IsShaped(m["Wprime"], 2, 4)

\* C3: with b, A, B and Wprime present, the error list of check_peft holds
\* exactly one prefixed error per failed check, in the order b, A, B, Wprime,
\* whatever the other checks returned, and is empty for well-shaped values.
C3_AllFourChecksRun ==
    (PeftChecked /\ PeftNames \subseteq DOMAIN vars_peft) =>
        LET failed == {k \in 1..4 : ~PeftCheckOf(vars_peft, required_peft[k]).ok}
            at(k) == Cardinality({j \in failed : j <= k}) IN
        /\ Len(errs_peft) = Cardinality(failed)
        /\ \A k \in failed :
              errs_peft[at(k)] = <<PeftPrefix[required_peft[k]]>>
                                 \o PeftCheckOf(vars_peft, required_peft[k]).msg
        /\ WellShapedPeft(vars_peft) => errs_peft = <<>>

C3_Witness ==
    /\ pc = "done" /\ PeftNames \subseteq DOMAIN vars_peft
    /\ Len(errs_peft) = 3
    /\ errs_peft[1][1] = PeftPrefix["b"]
    /\ errs_peft[2][1] = PeftPrefix["B"]
    /\ errs_peft[3][1] = PeftPrefix["Wprime"]

OnlyMissing(required, vars_out, errs) ==
    LET absent == {n \in Range(required) : n \notin DOMAIN vars_out} IN
    absent # {} =>
        /\ Len(errs) = Cardinality(absent)
        /\ \A n \in absent : Occurrences(errs, <<"Missing variable: ", n>>) = 1

\* C4: when the file parsed and a required variable is absent, the error list
\* holds one "Missing variable" error per absent name and nothing else.
C4_MissingShortCircuits ==
    /\ (CfgChecked /\ Parsed(CfgFile) /\ Refused(CfgFile.body) = {}) =>
           OnlyMissing(required_config, vars_cfg, errs_cfg)
    /\ (PeftChecked /\ Parsed(PeftFile) /\ Refused(PeftFile.body) = {}) =>
           OnlyMissing(required_peft, vars_peft, errs_peft)

\* a present variable is invalid next to an absent one, in both files of one
\* of the two kinds
C4_Witness ==
    /\ pc = "done" /\ path_cfg # None_
    /\ \/ /\ Parsed(CfgFile) /\ "P" \notin DOMAIN vars_cfg
          /\ "r" \in DOMAIN vars_cfg /\ vars_cfg["r"] = Int_(3)
          /\ errs_cfg = << <<"Missing variable: ", "P">> >>
       \/ /\ Parsed(PeftFile) /\ "A" \notin DOMAIN vars_peft
          /\ "b" \in DOMAIN vars_peft /\ vars_peft["b"] = Int_(5)
          /\ errs_peft = << <<"Missing variable: ", "A">> >>

EvenError(n, v) == <<n, " must be even (got ", StrInt(v), ").">>
SignError(n, v) == <<n, " must be >= 0 (got ", StrInt(v), ").">>

\* C5: with all 7 variables present, for r, P, d_a of integer value v the
\* parity error is appended iff v is odd and the sign error iff v < 0,
\* independently; r = 3 alone gives exactly the parity error of r.
C5_ParityAndSignIndependent ==
    (CfgChecked /\ ConfigNames \subseteq DOMAIN vars_cfg) =>
        /\ \A n \in {"r", "P", "d_a"} :
              vars_cfg[n].type = "int" =>
                LET v == vars_cfg[n].val IN
                /\ Occurrences(errs_cfg, EvenError(n, v)) = IF IsOdd(v) THEN 1 ELSE 0
                /\ Occurrences(errs_cfg, SignError(n, v)) = IF v < 0 THEN 1 ELSE 0
        /\ (vars_cfg["r"] = Int_(3) /\ ValidConfig([vars_cfg EXCEPT !["r"] = Int_(4)]))
              => errs_cfg = <<EvenError("r", 3)>>

C5_Witness ==
    /\ pc = "done" /\ path_cfg # None_ /\ ConfigNames \subseteq DOMAIN vars_cfg
    /\ vars_cfg["r"] = Int_(-3) /\ vars_cfg["P"] = Int_(-2)
    /\ errs_cfg = <<SignError("r", -3), SignError("P", -2), EvenError("r", -3)>>

\* a number or a nested list of numbers
RECURSIVE NumbersOnly(_)
NumbersOnly(node) ==
    IF node.node = "Constant" THEN node.value.type \in {"int", "float"}
    ELSE IF node.node = "UnaryOp"
    THEN node.op \in {"UAdd", "USub"} /\ node.operand.node = "Constant"
         /\ node.operand.value.type \in {"int", "float"}
    ELSE IF node.node = "List"
    THEN \A i \in 1..Len(node.elts) : NumbersOnly(node.elts[i])
    ELSE FALSE

ParseErrorOf(body, i) == <<"Could not parse value for ", body[i].targets[1].id, ": ", "<e>">>

RejectsUnlessNumbers(f, vars_out, errs) ==
    (Parsed(f) /\ \E i \in NameAssigns(f.body) : ~NumbersOnly(f.body[i].value)) =>
        /\ vars_out = EmptyDict
        /\ \E i \in NameAssigns(f.body) : errs = <<ParseErrorOf(f.body, i)>>

RECURSIVE NonLiteral(_)
NonLiteral(node) ==
    IF node.node = "Constant" THEN FALSE
    ELSE IF node.node \in {"List", "Tuple", "Set"}
    THEN \E i \in 1..Len(node.elts) : NonLiteral(node.elts[i])
    ELSE IF node.node = "Dict"
    THEN \/ \E i \in 1..Len(node.keys) : NonLiteral(node.keys[i])
         \/ \E i \in 1..Len(node.values) : NonLiteral(node.values[i])
    ELSE IF node.node = "Call" THEN ~(node.func = Name("set") /\ node.args = <<>>)
    ELSE IF node.node = "UnaryOp"
    THEN node.op \notin {"UAdd", "USub"} \/ node.operand.node # "Constant"
    ELSE IF node.node = "BinOp"
    THEN ~(node.right.node = "Constant" /\ node.right.value.type = "complex")
    ELSE TRUE

\* a literal: a constant of any type, a signed number, a list or tuple of
\* literals, a set of constants, or a dict of literals keyed by constants
RECURSIVE PlainLiteral(_)
PlainLiteral(node) ==
    IF node.node = "Constant" THEN TRUE
    ELSE IF node.node = "UnaryOp" THEN NumbersOnly(node)
    ELSE IF node.node \in {"List", "Tuple"}
    THEN \A i \in 1..Len(node.elts) : PlainLiteral(node.elts[i])
    ELSE IF node.node = "Set"
    THEN \A i \in 1..Len(node.elts) : node.elts[i].node = "Constant"
    ELSE IF node.node = "Dict"
    THEN /\ Len(node.keys) = Len(node.values)
         /\ \A i \in 1..Len(node.keys) : node.keys[i].node = "Constant"
         /\ \A i \in 1..Len(node.values) : PlainLiteral(node.values[i])
    ELSE FALSE

RejectsNonLiterals(f, vars_out, errs) ==
    Parsed(f) =>
        /\ (\E i \in NameAssigns(f.body) : NonLiteral(f.body[i].value)) =>
              /\ vars_out = EmptyDict
              /\ \E i \in NameAssigns(f.body) : errs = <<ParseErrorOf(f.body, i)>>
        /\ (\A i \in NameAssigns(f.body) : PlainLiteral(f.body[i].value)) =>
              /\ \A i \in NameAssigns(f.body) :
                    /\ f.body[i].targets[1].id \in DOMAIN vars_out
                    /\ errs # <<ParseErrorOf(f.body, i)>>
              /\ \A i \in NameAssigns(f.body) :
                    (f.body[i].value.node = "Constant"
                     /\ \A j \in NameAssigns(f.body) :
                           j > i => f.body[j].targets[1].id # f.body[i].targets[1].id)
                    => vars_out[f.body[i].targets[1].id] = f.body[i].value.value

AllOrNothing(f, vars_out, errs) ==
    (Parsed(f) /\ Refused(f.body) # {}) =>
        /\ vars_out = EmptyDict
        /\ errs = <<ParseErrorOf(f.body, Min(Refused(f.body)))>>

\* C7: one right-hand side that cannot be evaluated makes
\* read_assignments_multiline return the empty map and one error naming the
\* variable of the first such statement, whatever is assigned before or
\* after; the caller returns that error alone.
C7_AllOrNothing ==
    /\ CfgChecked => AllOrNothing(CfgFile, vars_cfg, errs_cfg)
    /\ PeftChecked => AllOrNothing(PeftFile, vars_peft, errs_peft)

C7_Witness ==
    /\ pc = "done" /\ path_cfg # None_ /\ Parsed(CfgFile)
    /\ CfgFile.body = <<AssignName("r", Num(4)),
                        AssignName("r", BinOp(Num(1), "Add", Num(1))),
                        AssignName("r", Num(6))>>
    /\ vars_cfg = EmptyDict /\ Len(errs_cfg) = 1

CfgHasError ==
    IF exists(fs["peft config.txt"])
    THEN check_peft_config("peft config.txt", fs["peft config.txt"]).errors # <<>>
    ELSE IF exists(fs["peft_config.txt"])
    THEN check_peft_config("peft_config.txt", fs["peft_config.txt"]).errors # <<>>
    ELSE TRUE
PeftHasError ==
    IF exists(fs["peft.txt"]) THEN check_peft("peft.txt", fs["peft.txt"]).errors # <<>>
    ELSE TRUE
PeftLines == {i \in 1..Len(stdout) :
                 /\ Len(stdout[i]) = 2
                 /\ stdout[i][2] \in {"peft.txt: File not found", "peft.txt: OK", "peft.txt:"}}

\* C8: main returns 0 iff neither file produced an error and 1 otherwise,
\* and the data file is checked and reported in every run.
C8_ExitStatus ==
    pc = "done" =>
        /\ ret \in {Int_(0), Int_(1)}
        /\ ret = Int_(0) <=> (~CfgHasError /\ ~PeftHasError)
        /\ Cardinality(PeftLines) = 1
        /\ \A i \in PeftLines : (stdout[i] = <<"OK ", "peft.txt: OK">>) <=> ~PeftHasError
        /\ exists(fs["peft.txt"]) => errs_peft = check_peft("peft.txt", fs["peft.txt"]).errors

\* the config file failed, the data file is fine
C8_Witness ==
    /\ pc = "done" /\ ret = Int_(1)
    /\ path_cfg = None_
    /\ ~PeftHasError /\ vars_peft # EmptyDict

\* C9: with all 7 variables present, every variable whose value is not of
\* integer type (float, boolean, string, list, ...) gets exactly one
\* "must be an integer" error and every negative integer one ">= 0" error.
C9_NonIntegerFlagged ==
    (CfgChecked /\ ConfigNames \subseteq DOMAIN vars_cfg) =>
        \A n \in ConfigNames :
            /\ vars_cfg[n].type # "int" =>
                  Cardinality({i \in 1..Len(errs_cfg) :
                                  /\ errs_cfg[i][1] = n
                                  /\ errs_cfg[i][2] = " must be an integer (got "}) = 1
            /\ (vars_cfg[n].type = "int" /\ vars_cfg[n].val < 0) =>
                  Occurrences(errs_cfg, SignError(n, vars_cfg[n].val)) = 1

LastWriteWins(f, vars_out, errs) ==
    (Parsed(f) /\ Refused(f.body) = {}) =>
        /\ DOMAIN vars_out = {f.body[i].targets[1].id : i \in NameAssigns(f.body)}
        /\ \A n \in DOMAIN vars_out :
              LET last == Max({i \in NameAssigns(f.body) : f.body[i].targets[1].id = n}) IN
              vars_out[n] = literal_eval(f.body[last].value).val
        /\ \A i \in 1..Len(errs) :
              errs[i][1] \notin {"Could not parse value for ", "Could not parse file as Python: "}

\* C10: when every right-hand side is a literal, the map holds exactly the
\* names assigned by top-level single-name assignments, each with the value
\* of its last assignment; other statements add nothing and raise no error.
C10_LastWriteWins ==
    /\ CfgChecked => LastWriteWins(CfgFile, vars_cfg, errs_cfg)
    /\ PeftChecked => LastWriteWins(PeftFile, vars_peft, errs_peft)

C10_Witness ==
    /\ pc = "done" /\ path_cfg # None_ /\ Parsed(CfgFile)
    /\ CfgFile.body = <<AssignName("r", Num(4)), Assign(<<Name("r"), Name("b")>>, Num(1)),
                        AssignName("r", Num(6))>>
    /\ vars_cfg = [r |-> Int_(6)]

====
